---------------------------- MODULE Spec2Model ----------------------------
(***************************************************************************)
(* View tracking, view-counter reconciliation and scheduled publishing of  *)
(* the blog backend.                                                       *)
(*                                                                         *)
(*   trackPostView   src/src/http/routes/blog/post/delete-post.ts:277-379  *)
(*   FlushPostViews  src/unnamed/part_018:140-280                          *)
(*   deletePost      src/src/http/routes/blog/post/delete-post.ts:11-80    *)
(*   PublishScheduledPosts  src/src/queue/jobs/publish-scheduled-posts.ts  *)
(*   editPost        src/unnamed/part_011:286-456                          *)
(*                                                                         *)
(* Every await of a handler on one of the two stores is one action, so the *)
(* handlers interleave exactly where the event loop lets them.             *)
(***************************************************************************)
EXTENDS Integers, Sequences, FiniteSets, TLC

(***************************************************************************)
(* Bounds of the model.                                                    *)
(***************************************************************************)
\* view-tracking calls in one behaviour
MaxCalls == 2
\* injected store failures in one behaviour
MaxFaults == 1
\* Reconciliation Sweep runs in one behaviour
MaxSweeps == 2
\* keys one SCAN loop may collect (SCAN may return a key more than once)
MaxScan == 2
\* CHUNK_SIZE of the sweep, scaled down (100 in the source)
CHUNK_SIZE == 1
\* instants of the wall clock
MaxClock == 2
\* manual edits in one behaviour
MaxEdits == 1
\* BATCH_SIZE of the publish sweep, scaled down (100 in the source)
BATCH_SIZE == 2
\* store or side-effect failures of the publish sweep in one behaviour
MaxPubFaults == 1

Posts == {"p1", "p2", "p3"}
Slugs == {"s1", "s2"}
NoPost == "none"
NoFp == "nofp"
FpInputs == {"fpA"}
\* the handler invocations that run side by side
Slots == {1, 2}
\* ids of PostView rows, in the order of their creation
RowIds == 1..MaxCalls
\* day buckets (yyyymmdd), in order
Days == {1, 2}

\* user-agents as character sequences, so that the classification is computed
UAs == { <<"M", "o", "z">>, <<"a", "B", "O", "T">> }

VARIABLES
    post,       \* durable Post rows: [exists, slug, status, visibility, views, ...]
    rows,       \* durable PostView rows by id: [status, processedAt, postId]
    dedup,      \* fast store: pv:u:<postId>:<day> sets
    pending,    \* fast store: pv:pending:<postId> counters (0: no key)
    call,       \* the view-tracking calls and where each stands
    sw,         \* the Reconciliation Sweep run and where it stands
    today,      \* the current UTC day bucket
    budget,     \* what the behaviour may still do: calls, rows, faults, sweeps
    gh,         \* observer: the (member, day) pairs submitted, the INCRBYs made
    obs,        \* observer: what the sweep run started from, and what ran beside it
    clock,      \* the wall clock (new Date())
    pub,        \* the Scheduled Publish Sweep invocations and where each stands
    ed,         \* the editPost call and where it stands
    quota,      \* what the behaviour may still do: edits
    pgh         \* observer: conditional updates that reported 1, side effects run

vars == <<post, rows, dedup, pending, call, sw, today, budget, gh, obs,
          clock, pub, ed, quota, pgh>>
viewVars == <<rows, dedup, pending, call, sw, today, budget, gh, obs>>
pubVars == <<clock, pub, ed, quota, pgh>>

(***************************************************************************)
(* src/unnamed/part_019: metrics helpers                                   *)
(***************************************************************************)
ToLowerCh(ch) ==
    CASE ch = "B" -> "b"
      [] ch = "O" -> "o"
      [] ch = "T" -> "t"
      [] ch = "M" -> "m"
      [] OTHER -> ch

toLowerCase(s) == [i \in 1..Len(s) |-> ToLowerCh(s[i])]

includes(s, t) ==
    \E i \in 1..(Len(s) - Len(t) + 1) : SubSeq(s, i, i + Len(t) - 1) = t

BotTokens ==
    { <<"b", "o", "t">>,
      <<"s", "p", "i", "d", "e", "r">>,
      <<"c", "r", "a", "w", "l", "e", "r">>,
      <<"p", "r", "e", "v", "i", "e", "w">>,
      <<"f", "e", "t", "c", "h">>,
      <<"h", "e", "a", "d", "l", "e", "s", "s">>,
      <<"m", "o", "n", "i", "t", "o", "r">>,
      <<"p", "i", "n", "g", "d", "o", "m">> }

isBotUA(ua) ==
    LET s == toLowerCase(ua)
    IN  /\ s # <<>>
        /\ \E t \in BotTokens : includes(s, t)

\* hashIp(ip): one client address is modelled, so one hash
hashIp == "iph"

(***************************************************************************)
(* Keys of the fast store                                                  *)
(***************************************************************************)
pendingKey(postId) == <<"pv", "pending", postId>>
setKey(postId, day) == <<"pv", "u", postId, day>>
\* key.split(":")[2]
PostIdOfKey(key) == key[3]

PostOfSlug(slug) ==
    IF \E p \in Posts : post[p].exists /\ post[p].slug = slug
    THEN CHOOSE p \in Posts : post[p].exists /\ post[p].slug = slug
    ELSE NoPost

\* body.fp && body.fp.length >= 16 ? body.fp : `${ipH}:${day}`
fpKeyPart(fp, day) == IF fp # NoFp THEN <<fp>> ELSE <<hashIp, day>>

Members == {fpKeyPart(fp, d) : fp \in FpInputs \cup {NoFp}, d \in Days}
Tuples == {<<p, fpKeyPart(fp, d), d>> : p \in Posts, fp \in FpInputs \cup {NoFp}, d \in Days}

NoRow == [status |-> "NONE", processedAt |-> FALSE, postId |-> NoPost]
IdleCall ==
    [pc |-> "idle", slug |-> "s1", fp |-> NoFp, ua |-> <<>>, post |-> NoPost,
     day |-> 0, row |-> 0, failed |-> FALSE, counted |-> FALSE, resp |-> 0]
IdleSweep ==
    [pc |-> "idle", start |-> {}, keys |-> <<>>, toApply |-> <<>>, i |-> 1,
     valid |-> <<>>, missing |-> <<>>, err |-> "none", at |-> "none"]
NoObs == [quiet |-> FALSE, prevClean |-> FALSE, views |-> <<>>, pending |-> <<>>,
          rows |-> <<>>, exists |-> <<>>]

\* the publish sweep invocations of a behaviour, which may overlap
Workers == {"w1", "w2"}
Rank(w) == IF w = "w1" THEN 1 ELSE 2
Null == 0
\* a field the request body leaves out
Undef == "undefined"
NoDate == -1
IdleWorker ==
    [pc |-> "idle", ids |-> <<>>, k |-> 1, now |-> Null, processed |-> 0,
     last |-> NoPost, res |-> "none"]
IdleEdit ==
    [pc |-> "idle", id |-> NoPost, setStatus |-> FALSE, status |-> "DRAFT",
     setScheduledFor |-> FALSE, scheduledFor |-> Null, publishedAt |-> Null]
NoWins == [wins |-> [p \in Posts |-> 0], fx |-> [p \in Posts |-> 0],
           fxerr |-> [p \in Posts |-> FALSE],
           edited |-> [p \in Posts |-> FALSE],
           start |-> [w \in Workers |-> Null],
           due |-> [w \in Workers |-> {}]]

InFlight(c) == call[c].pc \notin {"idle", "done"}

\* an ingestion step or a post deletion beside or between sweep runs
Disturb == NoObs


(***************************************************************************)
(* Init: two posts, no views yet; p3 was never created.  p1 is PUBLISHED   *)
(* and PUBLIC; p2 is any of eligible, not PUBLISHED, not PUBLIC.           *)
(***************************************************************************)
ViewPost(slug, status, visibility) ==
    [exists |-> TRUE, slug |-> slug, status |-> status, visibility |-> visibility,
     views |-> 0, scheduledFor |-> Null,
     publishedAt |-> IF status = "PUBLISHED" THEN 1 ELSE Null, createdAt |-> 0]

\* a post that was never created
Absent == [ViewPost("s3", "DRAFT", "PUBLIC") EXCEPT !.exists = FALSE]

Init ==
    /\ \E sv \in { <<"PUBLISHED", "PUBLIC">>, <<"DRAFT", "PUBLIC">>,
                    <<"PUBLISHED", "PRIVATE">> } :
          post = [p \in Posts |->
                    IF p = "p1" THEN ViewPost("s1", "PUBLISHED", "PUBLIC")
                    ELSE IF p = "p2" THEN ViewPost("s2", sv[1], sv[2])
                    ELSE Absent]
    /\ rows = [r \in RowIds |-> NoRow]
    /\ dedup = [k \in Posts \X Days |-> {}]
    /\ pending = [p \in Posts |-> 0]
    /\ call = [c \in Slots |-> IdleCall]
    /\ sw = IdleSweep
    /\ today = 1
    /\ budget = [calls |-> MaxCalls, rows |-> MaxCalls, faults |-> MaxFaults,
                 sweeps |-> MaxSweeps]
    /\ gh = [pairs |-> [p \in Posts |-> {}], incs |-> [t \in Tuples |-> 0],
             lost |-> [p \in Posts |-> FALSE], botDone |-> FALSE]
    /\ obs = NoObs
    /\ clock = 1
    /\ pub = [w \in Workers |-> IdleWorker]
    /\ ed = IdleEdit
    /\ quota = [edits |-> 0, faults |-> 0]
    /\ pgh = NoWins

(***************************************************************************)
(* trackPostView: src/src/http/routes/blog/post/delete-post.ts:294-377     *)
(***************************************************************************)
\* the observer's tuple of a call: post, member of the daily set, day
TupleOf(c) == <<call[c].post, fpKeyPart(call[c].fp, call[c].day), call[c].day>>

\* the call returned: only the response is kept
Done(resp) == [IdleCall EXCEPT !.pc = "done", !.resp = resp]

Finish(c, resp) ==
    IF isBotUA(call[c].ua)
    THEN [gh EXCEPT !.botDone = TRUE]
    ELSE [gh EXCEPT !.lost[call[c].post] = @ \/ call[c].failed \/ resp # 204]

\* lines 314-318
Eligible_noVisibility(p) ==
    /\ p # NoPost
    /\ post[p].status = "PUBLISHED"

Eligible(p) ==
    /\ p # NoPost
    /\ post[p].status = "PUBLISHED"
    /\ post[p].visibility = "PUBLIC"

\* the request arrives with slug, body.fp and user-agent; lines 310-322:
\* prisma.post.findUnique, the eligibility test, day = yyyymmdd()
Request(c, slug, fp, ua) ==
    /\ call[c].pc \in {"idle", "done"}
    /\ budget.calls > 0
    /\ \A d \in Slots : d < c => call[d].pc \notin {"idle", "done"}
    /\ budget' = [budget EXCEPT !.calls = @ - 1]
    /\ LET p == PostOfSlug(slug)
       IN  IF Eligible(p)
           THEN /\ call' = [call EXCEPT ![c] =
                              [IdleCall EXCEPT !.pc = "create", !.fp = fp, !.ua = ua,
                                               !.post = p, !.day = today]]
                /\ gh' = IF isBotUA(ua) THEN gh
                         ELSE [gh EXCEPT !.pairs[p] = @ \cup {<<fpKeyPart(fp, today), today>>}]
           ELSE /\ call' = [call EXCEPT ![c] = [Done(204) EXCEPT !.slug = slug]]
                /\ gh' = gh
    /\ obs' = Disturb
    /\ UNCHANGED <<post, rows, dedup, pending, sw, today>>
    /\ UNCHANGED pubVars

\* any request
Lookup(c) ==
    \E slug \in Slugs, fp \in FpInputs \cup {NoFp}, ua \in UAs : Request(c, slug, fp, ua)

\* the id of the next PostView row: ids follow createdAt
NewRowId == MaxCalls - budget.rows + 1

\* line 347 without the test: every call goes on to the dedup
AfterCreate_noBotTest(c) == "sadd"

\* line 347: if (bot)
AfterCreate(c) == IF isBotUA(call[c].ua) THEN "botdel" ELSE "sadd"

\* lines 328-350: prisma.postView.create (PENDING); the foreign key to Post
\* rejects the insert when the post is gone
CreateView(c) ==
    /\ call[c].pc = "create"
    /\ IF post[call[c].post].exists
       THEN /\ rows' = [rows EXCEPT ![NewRowId] =
                          [status |-> "PENDING", processedAt |-> FALSE,
                           postId |-> call[c].post]]
            /\ call' = [call EXCEPT ![c].row = NewRowId, ![c].pc = AfterCreate(c)]
            /\ budget' = [budget EXCEPT !.rows = @ - 1]
            /\ gh' = gh
       ELSE /\ call' = [call EXCEPT ![c] = Done(500)]
            /\ gh' = Finish(c, 500)
            /\ UNCHANGED <<rows, budget>>
    /\ obs' = Disturb
    /\ UNCHANGED <<post, dedup, pending, sw, today>>
    /\ UNCHANGED pubVars

\* prisma.postView.delete({ where: { id: view.id } }) as the call's last
\* statement: it throws when the row is gone, and nothing catches that
DeleteView(c) ==
    IF rows[call[c].row].status # "NONE"
    THEN /\ rows' = [rows EXCEPT ![call[c].row] = NoRow]
         /\ call' = [call EXCEPT ![c] = Done(204)]
         /\ gh' = Finish(c, 204)
    ELSE /\ call' = [call EXCEPT ![c] = Done(500)]
         /\ gh' = Finish(c, 500)
         /\ UNCHANGED rows

\* lines 347-350: a bot's row is deleted at once
BotDelete(c) ==
    /\ call[c].pc = "botdel"
    /\ DeleteView(c)
    /\ obs' = Disturb
    /\ UNCHANGED <<post, dedup, pending, sw, today, budget>>
    /\ UNCHANGED pubVars

\* the daily set after redis.sadd(setKey, fpKeyPart), keyed by post alone
SaddSet_noDay(c) ==
    [k \in Posts \X Days |->
        IF k[1] = call[c].post
        THEN dedup[k] \cup {fpKeyPart(call[c].fp, call[c].day)}
        ELSE dedup[k]]

\* the daily set after redis.sadd(setKey, fpKeyPart)
SaddSet(c) ==
    [dedup EXCEPT ![<<call[c].post, call[c].day>>] =
                      @ \cup {fpKeyPart(call[c].fp, call[c].day)}]

\* redis.sadd's reply read as "new" whatever it is
SaddReply_always1(c) == TRUE

\* the reply of redis.sadd: 1 when the member is new
SaddReply(c) ==
    fpKeyPart(call[c].fp, call[c].day) \notin dedup[<<call[c].post, call[c].day>>]

\* lines 359-362: redis.sadd(setKey, fpKeyPart), redis.expire(setKey, 2 days),
\* if (added === 1).  EXPIRE changes a time to live only, which is not part
\* of the state, so the two commands are one step
Sadd(c) ==
    /\ call[c].pc = "sadd"
    /\ dedup' = SaddSet(c)
    /\ call' = [call EXCEPT ![c].pc = IF SaddReply(c) THEN "incr" ELSE "dupdel"]
    /\ obs' = Disturb
    /\ UNCHANGED <<post, rows, pending, sw, today, budget, gh>>
    /\ UNCHANGED pubVars

\* redis.sadd rejects: control goes to the catch block
SaddRejects(c) ==
    /\ call[c].pc = "sadd"
    /\ budget.faults > 0
    /\ budget' = [budget EXCEPT !.faults = @ - 1]
    /\ call' = [call EXCEPT ![c].pc = "catch", ![c].failed = TRUE]
    /\ obs' = Disturb
    /\ UNCHANGED <<post, rows, dedup, pending, sw, today, gh>>
    /\ UNCHANGED pubVars

\* redis.sadd answered and redis.expire(setKey) rejects
ExpireSetRejects(c) ==
    /\ call[c].pc = "sadd"
    /\ budget.faults > 0
    /\ budget' = [budget EXCEPT !.faults = @ - 1]
    /\ dedup' = SaddSet(c)
    /\ call' = [call EXCEPT ![c].pc = "catch", ![c].failed = TRUE]
    /\ obs' = Disturb
    /\ UNCHANGED <<post, rows, pending, sw, today, gh>>
    /\ UNCHANGED pubVars

\* lines 364-365 and 376: redis.incrby(pendingKey, 1), redis.expire(pendingKey,
\* 7 days), 204
IncrBy(c) ==
    /\ call[c].pc = "incr"
    /\ pending' = [pending EXCEPT ![call[c].post] = @ + 1]
    /\ call' = [call EXCEPT ![c] = Done(204)]
    /\ gh' = [Finish(c, 204) EXCEPT !.incs[TupleOf(c)] = @ + 1]
    /\ obs' = Disturb
    /\ UNCHANGED <<post, rows, dedup, sw, today, budget>>
    /\ UNCHANGED pubVars

\* redis.incrby rejects
IncrByRejects(c) ==
    /\ call[c].pc = "incr"
    /\ budget.faults > 0
    /\ budget' = [budget EXCEPT !.faults = @ - 1]
    /\ call' = [call EXCEPT ![c].pc = "catch", ![c].failed = TRUE]
    /\ obs' = Disturb
    /\ UNCHANGED <<post, rows, dedup, pending, sw, today, gh>>
    /\ UNCHANGED pubVars

\* redis.incrby answered and redis.expire(pendingKey) rejects
ExpirePendingRejects(c) ==
    /\ call[c].pc = "incr"
    /\ budget.faults > 0
    /\ budget' = [budget EXCEPT !.faults = @ - 1]
    /\ pending' = [pending EXCEPT ![call[c].post] = @ + 1]
    /\ call' = [call EXCEPT ![c].pc = "catch", ![c].failed = TRUE,
                            ![c].counted = TRUE]
    /\ gh' = [gh EXCEPT !.incs[TupleOf(c)] = @ + 1]
    /\ obs' = Disturb
    /\ UNCHANGED <<post, rows, dedup, sw, today>>
    /\ UNCHANGED pubVars

\* line 369 left out: the duplicate's row stays
DupDelete_keepRow(c) ==
    /\ call[c].pc = "dupdel"
    /\ call' = [call EXCEPT ![c] = Done(204)]
    /\ gh' = Finish(c, 204)
    /\ obs' = Disturb
    /\ UNCHANGED <<post, rows, dedup, pending, sw, today, budget>>
    /\ UNCHANGED pubVars

\* line 369: the duplicate's row is deleted, inside the try block: when the
\* delete throws, the catch block runs
DupDelete(c) ==
    /\ call[c].pc = "dupdel"
    /\ IF rows[call[c].row].status # "NONE"
       THEN /\ rows' = [rows EXCEPT ![call[c].row] = NoRow]
            /\ call' = [call EXCEPT ![c] = Done(204)]
            /\ gh' = Finish(c, 204)
       ELSE /\ call' = [call EXCEPT ![c].pc = "catch"]
            /\ gh' = gh
            /\ UNCHANGED rows
    /\ obs' = Disturb
    /\ UNCHANGED <<post, dedup, pending, sw, today, budget>>
    /\ UNCHANGED pubVars

\* lines 371-376: catch: the row is deleted, outside any try block
CatchDelete(c) ==
    /\ call[c].pc = "catch"
    /\ DeleteView(c)
    /\ obs' = Disturb
    /\ UNCHANGED <<post, dedup, pending, sw, today, budget>>
    /\ UNCHANGED pubVars

(***************************************************************************)
(* deletePost: src/src/http/routes/blog/post/delete-post.ts:61-77.         *)
(* PostView.postId is ON DELETE CASCADE (migration.sql), so the post's     *)
(* rows go with it; the fast store is not touched.                         *)
(***************************************************************************)
DeletePost(p) ==
    /\ post[p].exists
    /\ post' = [post EXCEPT ![p].exists = FALSE]
    /\ rows' = [r \in RowIds |-> IF rows[r].postId = p THEN NoRow ELSE rows[r]]
    /\ obs' = Disturb
    /\ UNCHANGED <<dedup, pending, call, sw, today, budget, gh>>
    /\ UNCHANGED pubVars

\* midnight UTC: yyyymmdd() moves to the next bucket
DayTick ==
    /\ today + 1 \in Days
    /\ today' = today + 1
    /\ UNCHANGED <<post, rows, dedup, pending, call, sw, budget, gh, obs>>
    /\ UNCHANGED pubVars

(***************************************************************************)
(* FlushPostViews: src/unnamed/part_018:140-280                            *)
(***************************************************************************)
Min(a, b) == IF a < b THEN a ELSE b
Range(seq) == {seq[i] : i \in 1..Len(seq)}

RECURSIVE SeqSum(_)
SeqSum(seq) == IF seq = <<>> THEN 0 ELSE Head(seq) + SeqSum(Tail(seq))

\* the job starts (the runner's limiter keeps one run at a time)
SweepStart ==
    /\ sw.pc = "idle"
    /\ budget.sweeps > 0
    /\ budget' = [budget EXCEPT !.sweeps = @ - 1]
    /\ sw' = [IdleSweep EXCEPT !.pc = "scan",
                               !.start = {p \in Posts : pending[p] > 0}]
    /\ obs' = [quiet |-> TRUE,
               prevClean |-> obs.quiet,
               views |-> [p \in Posts |-> post[p].views],
               pending |-> pending,
               rows |-> [r \in RowIds |-> rows[r].status],
               exists |-> [p \in Posts |-> post[p].exists]]
    /\ UNCHANGED <<post, rows, dedup, pending, call, today, gh>>
    /\ UNCHANGED pubVars

\* scanPendingKeys, lines 144-156: one SCAN reply.  SCAN returns every key
\* present during the whole iteration (sw.start) at least once and may return
\* a key more than once; the replies are appended as they come
ScanReply(p) ==
    /\ sw.pc = "scan"
    /\ pending[p] > 0
    /\ Len(sw.keys) < MaxScan
    /\ sw' = [sw EXCEPT !.keys = Append(@, pendingKey(p))]
    /\ UNCHANGED <<post, rows, dedup, pending, call, today, budget, gh, obs>>
    /\ UNCHANGED pubVars

\* the cursor is back at "0"; lines 250-253: no key, nothing to do
ScanEnd ==
    /\ sw.pc = "scan"
    /\ \A p \in sw.start : pending[p] > 0 => pendingKey(p) \in Range(sw.keys)
    /\ sw' = [sw EXCEPT !.start = {},
                        !.pc = IF sw.keys = <<>> THEN "done" ELSE "mget"]
    /\ UNCHANGED <<post, rows, dedup, pending, call, today, budget, gh, obs>>
    /\ UNCHANGED pubVars

\* lines 256-265: raw ? Number(raw) : 0, kept when finite and > 0
ToApply(keys, vals) ==
    LET idx == SelectSeq([i \in 1..Len(keys) |-> i], LAMBDA i : vals[i] > 0)
    IN  [j \in 1..Len(idx) |->
            [key |-> keys[idx[j]], postId |-> PostIdOfKey(keys[idx[j]]), val |-> vals[idx[j]]]]

\* line 255: redis.mget(...keys); lines 267-269: nothing valid, nothing to do
MGet ==
    /\ sw.pc = "mget"
    /\ LET vals == [i \in 1..Len(sw.keys) |-> pending[PostIdOfKey(sw.keys[i])]]
           ta == ToApply(sw.keys, vals)
       IN  sw' = [sw EXCEPT !.toApply = ta, !.i = 1,
                            !.pc = IF ta = <<>> THEN "done" ELSE "find"]
    /\ UNCHANGED <<post, rows, dedup, pending, call, today, budget, gh, obs>>
    /\ UNCHANGED pubVars

\* handle, lines 249 and 276-278, with the SCAN outside the try block
Caught_scanOutside(s, err) ==
    IF s.pc = "scan"
    THEN [s EXCEPT !.pc = "crashed", !.err = err, !.at = s.pc]
    ELSE [s EXCEPT !.pc = "done", !.err = err, !.at = s.pc]

\* handle, lines 249 and 276-278: every step of the run is inside the try
\* block; the catch block logs the error and the handler returns.  An error
\* that left the try block would end the run as "crashed"
Caught(s, err) ==
    IF s.pc \in {"scan", "mget", "find", "orphandel", "orphanmark", "tx", "del"}
    THEN [s EXCEPT !.pc = "done", !.err = err, !.at = s.pc]
    ELSE [s EXCEPT !.pc = "crashed", !.err = err, !.at = s.pc]

\* line 273: toApply.slice(i, i + CHUNK_SIZE)
Chunk == SubSeq(sw.toApply, sw.i, Min(sw.i + CHUNK_SIZE - 1, Len(sw.toApply)))

\* lines 272-275: the loop over the chunks, after applyChunk returned
NextChunk(s) ==
    IF s.i + CHUNK_SIZE <= Len(s.toApply)
    THEN [s EXCEPT !.i = s.i + CHUNK_SIZE, !.pc = "find", !.valid = <<>>, !.missing = <<>>]
    ELSE [s EXCEPT !.pc = "done", !.valid = <<>>, !.missing = <<>>]

\* applyChunk, lines 177-178, without the existence test
SplitChunk_noFilter(chunk) == [valid |-> chunk, missing |-> <<>>]

\* applyChunk, lines 165-178: clean, existing, valid, missing
SplitChunk(chunk) ==
    LET clean == SelectSeq(chunk, LAMBDA it : it.val > 0)
    IN  [valid |-> SelectSeq(clean, LAMBDA it : post[it.postId].exists),
         missing |-> SelectSeq(clean, LAMBDA it : ~post[it.postId].exists)]

\* lines 171-178: prisma.post.findMany of the chunk's posts
FindExisting ==
    /\ sw.pc = "find"
    /\ LET sp == SplitChunk(Chunk)
       IN  sw' = IF sp.missing # <<>>
                 THEN [sw EXCEPT !.valid = sp.valid, !.missing = sp.missing,
                                 !.pc = "orphandel"]
                 ELSE IF sp.valid # <<>>
                 THEN [sw EXCEPT !.valid = sp.valid, !.missing = sp.missing, !.pc = "tx"]
                 ELSE NextChunk(sw)
    /\ UNCHANGED <<post, rows, dedup, pending, call, today, budget, gh, obs>>
    /\ UNCHANGED pubVars

\* a DEL that deletes nothing
DelKeys_none(items) == pending

\* pipe.del(key) for every item
DelKeys(items) ==
    [p \in Posts |-> IF \E i \in 1..Len(items) : items[i].key = pendingKey(p)
                     THEN 0 ELSE pending[p]]

\* lines 183-185: the orphans' keys are deleted
OrphanDel ==
    /\ sw.pc = "orphandel"
    /\ pending' = DelKeys(sw.missing)
    /\ sw' = [sw EXCEPT !.pc = "orphanmark"]
    /\ UNCHANGED <<post, rows, dedup, call, today, budget, gh, obs>>
    /\ UNCHANGED pubVars

\* lines 188-194: the orphans' PENDING rows become DISCARDED; line 197
OrphanMark ==
    /\ sw.pc = "orphanmark"
    /\ rows' = [r \in RowIds |->
                  IF /\ rows[r].status = "PENDING"
                     /\ \E i \in 1..Len(sw.missing) : sw.missing[i].postId = rows[r].postId
                  THEN [rows[r] EXCEPT !.status = "DISCARDED", !.processedAt = TRUE]
                  ELSE rows[r]]
    /\ sw' = IF sw.valid # <<>> THEN [sw EXCEPT !.pc = "tx"] ELSE NextChunk(sw)
    /\ UNCHANGED <<post, dedup, pending, call, today, budget, gh, obs>>
    /\ UNCHANGED pubVars

\* lines 212-217: the oldest n PENDING rows of a post
TakePending(rs, p, n) ==
    LET cand == {r \in RowIds : rs[r].status = "PENDING" /\ rs[r].postId = p}
    IN  {r \in cand : Cardinality({q \in cand : q < r}) < n}

\* lines 219-224 with data that sets the status and leaves processedAt alone
RECURSIVE MarkApplied_noProcessedAt(_, _)
MarkApplied_noProcessedAt(rs, items) ==
    IF items = <<>> THEN rs
    ELSE LET take == TakePending(rs, Head(items).postId, Head(items).val)
         IN  MarkApplied_noProcessedAt(
                 [r \in RowIds |->
                     IF r \in take THEN [rs[r] EXCEPT !.status = "APPLIED"]
                     ELSE rs[r]],
                 Tail(items))

\* lines 211-225: PENDING -> APPLIED, item by item
RECURSIVE MarkApplied(_, _)
MarkApplied(rs, items) ==
    IF items = <<>> THEN rs
    ELSE LET take == TakePending(rs, Head(items).postId, Head(items).val)
         IN  MarkApplied([r \in RowIds |->
                            IF r \in take
                            THEN [rs[r] EXCEPT !.status = "APPLIED", !.processedAt = TRUE]
                            ELSE rs[r]],
                         Tail(items))

\* lines 202-208 with decrement in the place of increment
Increments_decrement(items, p) ==
    0 - SeqSum([i \in 1..Len(items) |-> IF items[i].postId = p THEN items[i].val ELSE 0])

\* lines 202-208: views: { increment: item.val }, item by item
Increments(items, p) ==
    SeqSum([i \in 1..Len(items) |-> IF items[i].postId = p THEN items[i].val ELSE 0])

\* lines 200-226: the transaction commits; tx.post.update throws on a post
\* that is gone, which rolls everything back and leaves applyChunk
Transaction ==
    /\ sw.pc = "tx"
    /\ IF \A i \in 1..Len(sw.valid) : post[sw.valid[i].postId].exists
       THEN /\ post' = [p \in Posts |->
                          [post[p] EXCEPT !.views = @ + Increments(sw.valid, p)]]
            /\ rows' = MarkApplied(rows, sw.valid)
            /\ sw' = [sw EXCEPT !.pc = "del"]
       ELSE /\ sw' = Caught(sw, "thrown")
            /\ UNCHANGED <<post, rows>>
    /\ UNCHANGED <<dedup, pending, call, today, budget, gh, obs>>
    /\ UNCHANGED pubVars

\* lines 229-231 deleting the applied posts' daily sets with their keys
DelValid_alsoDedup ==
    /\ sw.pc = "del"
    /\ pending' = DelKeys(sw.valid)
    /\ dedup' = [k \in Posts \X Days |->
                   IF \E i \in 1..Len(sw.valid) : sw.valid[i].postId = k[1]
                   THEN {} ELSE dedup[k]]
    /\ sw' = NextChunk(sw)
    /\ UNCHANGED <<post, rows, call, today, budget, gh, obs>>
    /\ UNCHANGED pubVars

\* lines 229-231: the applied keys are deleted
DelValid ==
    /\ sw.pc = "del"
    /\ pending' = DelKeys(sw.valid)
    /\ sw' = NextChunk(sw)
    /\ UNCHANGED <<post, rows, dedup, call, today, budget, gh, obs>>
    /\ UNCHANGED pubVars

\* a store command rejects, and a transaction that rejects keeps the
\* increments it had made (no rollback)
SweepFails_noRollback ==
    /\ sw.pc \in {"scan", "mget", "find", "orphandel", "orphanmark", "tx", "del"}
    /\ budget.faults > 0
    /\ budget' = [budget EXCEPT !.faults = @ - 1]
    /\ sw' = Caught(sw, "store")
    /\ post' = [p \in Posts |->
                  IF sw.pc = "tx"
                  THEN [post[p] EXCEPT !.views = @ + Increments(sw.valid, p)]
                  ELSE post[p]]
    /\ UNCHANGED <<rows, dedup, pending, call, today, gh, obs>>
    /\ UNCHANGED pubVars

\* a store command of the run rejects (SCAN, MGET, findMany, DEL, updateMany,
\* the transaction): lines 276-278 catch it and the run ends
SweepFails ==
    /\ sw.pc \in {"scan", "mget", "find", "orphandel", "orphanmark", "tx", "del"}
    /\ budget.faults > 0
    /\ budget' = [budget EXCEPT !.faults = @ - 1]
    /\ sw' = Caught(sw, "store")
    /\ UNCHANGED <<post, rows, dedup, pending, call, today, gh, obs>>
    /\ UNCHANGED pubVars

\* the handler returned; the runner may start the next run
SweepReturn ==
    /\ sw.pc = "done"
    /\ sw' = IdleSweep
    /\ obs' = [NoObs EXCEPT !.quiet = obs.quiet /\ sw.err = "none"]
    /\ UNCHANGED <<post, rows, dedup, pending, call, today, budget, gh>>
    /\ UNCHANGED pubVars

Next ==
    \/ \E c \in Slots : Lookup(c)
    \/ \E c \in Slots : CreateView(c)
    \/ \E c \in Slots : BotDelete(c)
    \/ \E c \in Slots : Sadd(c)
    \/ \E c \in Slots : SaddRejects(c)
    \/ \E c \in Slots : ExpireSetRejects(c)
    \/ \E c \in Slots : IncrBy(c)
    \/ \E c \in Slots : IncrByRejects(c)
    \/ \E c \in Slots : ExpirePendingRejects(c)
    \/ \E c \in Slots : DupDelete(c)
    \/ \E c \in Slots : CatchDelete(c)
    \/ \E p \in Posts : DeletePost(p)
    \/ DayTick
    \/ SweepStart
    \/ \E p \in Posts : ScanReply(p)
    \/ ScanEnd
    \/ MGet
    \/ FindExisting
    \/ OrphanDel
    \/ OrphanMark
    \/ Transaction
    \/ DelValid
    \/ SweepFails
    \/ SweepReturn

Spec == Init /\ [][Next]_vars

(***************************************************************************)
(* Ingestion alone: the view-tracking calls, midnight, and the deletion of  *)
(* the post that is eligible from the start.                               *)
(***************************************************************************)
NextIngest ==
    \/ \E c \in Slots : Lookup(c)
    \/ \E c \in Slots : CreateView(c)
    \/ \E c \in Slots : BotDelete(c)
    \/ \E c \in Slots : Sadd(c)
    \/ \E c \in Slots : SaddRejects(c)
    \/ \E c \in Slots : ExpireSetRejects(c)
    \/ \E c \in Slots : IncrBy(c)
    \/ \E c \in Slots : IncrByRejects(c)
    \/ \E c \in Slots : ExpirePendingRejects(c)
    \/ \E c \in Slots : DupDelete(c)
    \/ \E c \in Slots : CatchDelete(c)
    \/ DeletePost("p1")
    \/ DayTick

SpecIngest == Init /\ [][NextIngest]_vars

(***************************************************************************)
(* Sweep runs with no ingestion beside them.  Both posts are eligible and  *)
(* the calls come from browsers, one at a time and between the runs, with  *)
(* the fast store answering them; posts are deleted at any moment and any  *)
(* store command of a run may fail.                                        *)
(***************************************************************************)
InitSweep == Init /\ \A p \in Posts : post[p].exists => Eligible(p)

BrowserUAs == {ua \in UAs : ~isBotUA(ua)}

QuietLookup(c) ==
    /\ sw.pc = "idle"
    /\ \A d \in Slots : ~InFlight(d)
    /\ \E slug \in Slugs, fp \in FpInputs \cup {NoFp}, ua \in BrowserUAs :
          Request(c, slug, fp, ua)

QuietSweepStart == (\A c \in Slots : ~InFlight(c)) /\ SweepStart

NextSweep ==
    \/ \E c \in Slots : QuietLookup(c)
    \/ \E c \in Slots : CreateView(c)
    \/ \E c \in Slots : Sadd(c)
    \/ \E c \in Slots : IncrBy(c)
    \/ \E c \in Slots : DupDelete(c)
    \/ \E c \in Slots : CatchDelete(c)
    \/ \E p \in Posts : DeletePost(p)
    \/ QuietSweepStart
    \/ \E p \in Posts : ScanReply(p)
    \/ ScanEnd
    \/ MGet
    \/ FindExisting
    \/ OrphanDel
    \/ OrphanMark
    \/ Transaction
    \/ DelValid
    \/ SweepFails
    \/ SweepReturn

SpecSweep == InitSweep /\ [][NextSweep]_vars

(***************************************************************************)
(* Ingestion beside the sweep: browser calls on eligible posts run while a *)
(* sweep run is in progress.  The fast store answers every command and     *)
(* SCAN returns every key once.                                            *)
(***************************************************************************)
BrowserLookup(c) ==
    \E slug \in Slugs, fp \in FpInputs \cup {NoFp}, ua \in BrowserUAs :
        Request(c, slug, fp, ua)

\* scanPendingKeys, lines 144-156: a SCAN reply with a key not yet returned
ScanReplyOnce(p) ==
    /\ pendingKey(p) \notin Range(sw.keys)
    /\ ScanReply(p)

NextConc ==
    \/ \E c \in Slots : BrowserLookup(c)
    \/ \E c \in Slots : CreateView(c)
    \/ \E c \in Slots : Sadd(c)
    \/ \E c \in Slots : IncrBy(c)
    \/ \E c \in Slots : DupDelete(c)
    \/ \E c \in Slots : CatchDelete(c)
    \/ \E p \in Posts : DeletePost(p)
    \/ SweepStart
    \/ \E p \in Posts : ScanReplyOnce(p)
    \/ ScanEnd
    \/ MGet
    \/ FindExisting
    \/ OrphanDel
    \/ OrphanMark
    \/ Transaction
    \/ DelValid
    \/ SweepReturn

SpecConc == InitSweep /\ [][NextConc]_vars

(***************************************************************************)
(* The same with the job repeating for ever: options.repeat, cron every    *)
(* ten minutes, part_018:238-246.  The runner starts the runs it owes and  *)
(* a run that has a step to take takes it.                                 *)
(***************************************************************************)
Requeue ==
    /\ sw.pc = "idle"
    /\ budget.sweeps = 0
    /\ budget' = [budget EXCEPT !.sweeps = MaxSweeps]
    /\ UNCHANGED <<post, rows, dedup, pending, call, sw, today, gh, obs>>
    /\ UNCHANGED pubVars

SweepStep ==
    \/ Requeue
    \/ SweepStart
    \/ \E p \in Posts : ScanReplyOnce(p)
    \/ ScanEnd
    \/ MGet
    \/ FindExisting
    \/ OrphanDel
    \/ OrphanMark
    \/ Transaction
    \/ DelValid
    \/ SweepReturn

NextLive ==
    \/ \E c \in Slots : BrowserLookup(c)
    \/ \E c \in Slots : CreateView(c)
    \/ \E c \in Slots : Sadd(c)
    \/ \E c \in Slots : IncrBy(c)
    \/ \E c \in Slots : DupDelete(c)
    \/ \E c \in Slots : CatchDelete(c)
    \/ \E p \in Posts : DeletePost(p)
    \/ SweepStep

SpecLive == InitSweep /\ [][NextLive]_vars /\ WF_vars(SweepStep)

(***************************************************************************)
(* Sweep runs with serial browser calls between them, as in SpecSweep, but *)
(* SCAN returns every key once, and a pending counter may leave the fast   *)
(* store: its TTL of 7 days (delete-post.ts:365) runs out or the store     *)
(* evicts it.                                                              *)
(***************************************************************************)
ExpireKey(p) ==
    /\ pending[p] > 0
    /\ pending' = [pending EXCEPT ![p] = 0]
    /\ UNCHANGED <<post, rows, dedup, call, sw, today, budget, gh, obs>>
    /\ UNCHANGED pubVars

NextRetry ==
    \/ \E c \in Slots : QuietLookup(c)
    \/ \E c \in Slots : CreateView(c)
    \/ \E c \in Slots : Sadd(c)
    \/ \E c \in Slots : IncrBy(c)
    \/ \E c \in Slots : DupDelete(c)
    \/ \E c \in Slots : CatchDelete(c)
    \/ \E p \in Posts : DeletePost(p)
    \/ \E p \in Posts : ExpireKey(p)
    \/ QuietSweepStart
    \/ \E p \in Posts : ScanReplyOnce(p)
    \/ ScanEnd
    \/ MGet
    \/ FindExisting
    \/ OrphanDel
    \/ OrphanMark
    \/ Transaction
    \/ DelValid
    \/ SweepFails
    \/ SweepReturn

SpecRetry == InitSweep /\ [][NextRetry]_vars

(***************************************************************************)
(* PublishScheduledPosts: src/src/queue/jobs/publish-scheduled-posts.ts    *)
(***************************************************************************)
Times == 1..MaxClock

SchedPost(slug, status, scheduledFor, createdAt) ==
    [exists |-> TRUE, slug |-> slug, status |-> status, visibility |-> "PUBLIC",
     views |-> 0, scheduledFor |-> scheduledFor,
     publishedAt |-> IF status = "PUBLISHED" THEN 1 ELSE Null, createdAt |-> createdAt]

\* p1 is SCHEDULED; p2 is SCHEDULED, a DRAFT, or PUBLISHED already
PublishStart(q) ==
    /\ \E s1 \in 1..2, st2 \in {"SCHEDULED", "DRAFT", "PUBLISHED"}, s2 \in 1..2 :
          post = [p \in Posts |->
                    IF p = "p1" THEN SchedPost("s1", "SCHEDULED", s1, 0)
                    ELSE IF p = "p2"
                    THEN SchedPost("s2", st2, IF st2 = "SCHEDULED" THEN s2 ELSE Null, 1)
                    ELSE Absent]
    /\ rows = [r \in RowIds |-> NoRow]
    /\ dedup = [k \in Posts \X Days |-> {}]
    /\ pending = [p \in Posts |-> 0]
    /\ call = [c \in Slots |-> IdleCall]
    /\ sw = IdleSweep
    /\ today = 1
    /\ budget = [calls |-> 0, rows |-> 0, faults |-> 0, sweeps |-> 0]
    /\ gh = [pairs |-> [p \in Posts |-> {}], incs |-> [t \in Tuples |-> 0],
             lost |-> [p \in Posts |-> FALSE], botDone |-> FALSE]
    /\ obs = NoObs
    /\ clock = 1
    /\ pub = [w \in Workers |-> IdleWorker]
    /\ ed = IdleEdit
    /\ quota = q
    /\ pgh = NoWins

InitPublish == PublishStart([edits |-> MaxEdits, faults |-> 0])

\* time passes
Tick ==
    /\ clock < MaxClock
    /\ clock' = clock + 1
    /\ UNCHANGED <<post, pub, ed, quota, pgh>>
    /\ UNCHANGED viewVars

\* fetchDueIds, lines 17-20: status SCHEDULED and scheduledFor <= now
FetchWhere(p, now) ==
    /\ post[p].exists
    /\ post[p].status = "SCHEDULED"
    /\ post[p].scheduledFor # Null
    /\ post[p].scheduledFor <= now

\* the where clause of the conditional update, by id alone
UpdateWhere_idOnly(p, now) == post[p].exists

\* the where clause of the conditional update, without the date
UpdateWhere_noDate(p, now) ==
    /\ post[p].exists
    /\ post[p].status = "SCHEDULED"

\* the where clause of the conditional update, without the status
UpdateWhere_noStatus(p, now) ==
    /\ post[p].exists
    /\ post[p].scheduledFor # Null
    /\ post[p].scheduledFor <= now

\* publishOne, lines 33-37: id, status SCHEDULED and scheduledFor <= now
UpdateWhere(p, now) ==
    /\ post[p].exists
    /\ post[p].status = "SCHEDULED"
    /\ post[p].scheduledFor # Null
    /\ post[p].scheduledFor <= now

\* line 21: orderBy scheduledFor asc, createdAt asc
Before(p, q) ==
    \/ post[p].scheduledFor < post[q].scheduledFor
    \/ /\ post[p].scheduledFor = post[q].scheduledFor
       /\ post[p].createdAt < post[q].createdAt

RECURSIVE Sorted(_)
Sorted(S) ==
    IF S = {} THEN <<>>
    ELSE LET first == CHOOSE p \in S : \A q \in S \ {p} : Before(p, q)
         IN  <<first>> \o Sorted(S \ {first})

\* line 23: take: limit
Take(seq, n) == SubSeq(seq, 1, Min(n, Len(seq)))

\* the job starts, once per invocation; line 85
PubStart(w) ==
    /\ pub[w].pc = "idle"
    /\ \A v \in Workers : pub[v].pc = "idle" => Rank(w) <= Rank(v)
    /\ pub' = [pub EXCEPT ![w] = [IdleWorker EXCEPT !.pc = "fetch"]]
    /\ UNCHANGED <<post, clock, ed, quota, pgh>>
    /\ UNCHANGED viewVars

\* fetchDueIds, line 15: const now = new Date()
FetchNow(w) ==
    /\ pub[w].pc = "fetch"
    /\ pub' = [pub EXCEPT ![w].now = clock, ![w].pc = "find"]
    /\ UNCHANGED <<post, clock, ed, quota, pgh>>
    /\ UNCHANGED viewVars

\* fetchDueIds, lines 16-25, and lines 88-89: no id, the loop ends
FindDue(w) ==
    /\ pub[w].pc = "find"
    /\ LET ids == Take(Sorted({p \in Posts : FetchWhere(p, pub[w].now)}), BATCH_SIZE)
       IN  pub' = [pub EXCEPT ![w].ids = ids, ![w].k = 1, ![w].now = Null,
                              ![w].pc = IF ids = <<>> THEN "end" ELSE "now"]
    /\ UNCHANGED <<post, clock, ed, quota, pgh>>
    /\ UNCHANGED viewVars

\* publishOne, line 29: const now = new Date()
PublishNow(w) ==
    /\ pub[w].pc = "now"
    /\ pub' = [pub EXCEPT ![w].now = clock, ![w].pc = "update"]
    /\ UNCHANGED <<post, clock, ed, quota, pgh>>
    /\ UNCHANGED viewVars

\* a loop that ends after its first batch, full or not
Advance_oneBatch(r) ==
    IF r.k < Len(r.ids) THEN [r EXCEPT !.k = @ + 1, !.pc = "now", !.now = Null]
    ELSE [r EXCEPT !.pc = "end", !.now = Null]

\* lines 91-102: the next id of the batch; after the last one the loop ends
\* when the batch was not full, and fetches again when it was
Advance(r) ==
    IF r.k < Len(r.ids) THEN [r EXCEPT !.k = @ + 1, !.pc = "now", !.now = Null]
    ELSE IF Len(r.ids) < BATCH_SIZE THEN [r EXCEPT !.pc = "end", !.now = Null]
    ELSE [r EXCEPT !.pc = "fetch", !.now = Null]

\* publishOne, lines 32-44 and 57: the conditional updateMany and its count
UpdateMany(w) ==
    /\ pub[w].pc = "update"
    /\ LET id == pub[w].ids[pub[w].k]
       IN  IF UpdateWhere(id, pub[w].now)
           THEN /\ post' = [post EXCEPT ![id].status = "PUBLISHED",
                                        ![id].publishedAt = pub[w].now]
                /\ pub' = [pub EXCEPT ![w].pc = "fx", ![w].last = id,
                                      ![w].res = "PUBLISHED"]
                /\ pgh' = [pgh EXCEPT !.wins[id] = @ + 1]
           ELSE /\ pub' = [pub EXCEPT ![w] =
                              Advance([pub[w] EXCEPT !.last = id, !.res = "SKIPPED",
                                                     !.processed = @ + 1])]
                /\ UNCHANGED <<post, pgh>>
    /\ UNCHANGED <<clock, ed, quota>>
    /\ UNCHANGED viewVars

\* lines 49-55 and 94: afterPublishSideEffects, then "PUBLISHED", processed++
SideEffects(w) ==
    /\ pub[w].pc = "fx"
    /\ pgh' = [pgh EXCEPT !.fx[pub[w].last] = @ + 1]
    /\ pub' = [pub EXCEPT ![w] = Advance([pub[w] EXCEPT !.processed = @ + 1])]
    /\ UNCHANGED <<post, clock, ed, quota>>
    /\ UNCHANGED viewVars

\* handle, lines 95-98, with the error thrown again
OnPublishError_rethrow(r) == [r EXCEPT !.pc = "failed", !.res = "ERROR", !.now = Null]

\* handle, lines 95-98: the catch inside the loop logs the error; processed
\* is not incremented and the loop goes on with the next id
OnPublishError(r) == Advance([r EXCEPT !.res = "ERROR"])

\* publishOne, lines 32-42: prisma.post.updateMany rejects
UpdateManyRejects(w) ==
    /\ pub[w].pc = "update"
    /\ quota.faults > 0
    /\ quota' = [quota EXCEPT !.faults = @ - 1]
    /\ pub' = [pub EXCEPT ![w] =
                  OnPublishError([pub[w] EXCEPT !.last = pub[w].ids[pub[w].k]])]
    /\ UNCHANGED <<post, clock, ed, pgh>>
    /\ UNCHANGED viewVars

\* publishOne, lines 49-55: afterPublishSideEffects throws, the catch logs
\* it and "PUBLISHED" is returned; line 94: processed++
SideEffectsThrow(w) ==
    /\ pub[w].pc = "fx"
    /\ quota.faults > 0
    /\ quota' = [quota EXCEPT !.faults = @ - 1]
    /\ pgh' = [pgh EXCEPT !.fxerr[pub[w].last] = TRUE]
    /\ pub' = [pub EXCEPT ![w] = Advance([pub[w] EXCEPT !.processed = @ + 1])]
    /\ UNCHANGED <<post, clock, ed>>
    /\ UNCHANGED viewVars

\* lines 106-109: the handler returns
PubEnd(w) ==
    /\ pub[w].pc = "end"
    /\ pub' = [pub EXCEPT ![w] = [IdleWorker EXCEPT !.pc = "done"]]
    /\ UNCHANGED <<post, clock, ed, quota, pgh>>
    /\ UNCHANGED viewVars

(***************************************************************************)
(* editPost: src/unnamed/part_011:303-456                                  *)
(***************************************************************************)
\* lines 372-375 without nextPublishedAt = null: a DRAFT keeps its date
EditRules_draftKeepsDate(existing, status, scheduledFor, now) ==
    IF status = "SCHEDULED"
    THEN IF scheduledFor = NoDate \/ scheduledFor <= now
         THEN [reject |-> TRUE, scheduledFor |-> Null, publishedAt |-> Null]
         ELSE [reject |-> FALSE, scheduledFor |-> scheduledFor, publishedAt |-> Null]
    ELSE IF status = "PUBLISHED"
    THEN [reject |-> FALSE, scheduledFor |-> Null,
          publishedAt |-> IF existing.publishedAt # Null THEN existing.publishedAt
                          ELSE now]
    ELSE [reject |-> FALSE,
          scheduledFor |-> IF status = "DRAFT" THEN Null
                           ELSE IF scheduledFor # NoDate THEN scheduledFor
                           ELSE existing.scheduledFor,
          publishedAt |-> existing.publishedAt]

\* lines 350-375: the status and date rules; "reject" is a BadRequestError
EditRules(existing, status, scheduledFor, now) ==
    IF status = "SCHEDULED"
    THEN IF scheduledFor = NoDate \/ scheduledFor <= now
         THEN [reject |-> TRUE, scheduledFor |-> Null, publishedAt |-> Null]
         ELSE [reject |-> FALSE, scheduledFor |-> scheduledFor, publishedAt |-> Null]
    ELSE IF status = "PUBLISHED"
    THEN [reject |-> FALSE, scheduledFor |-> Null,
          publishedAt |-> IF existing.publishedAt # Null THEN existing.publishedAt
                          ELSE now]
    ELSE IF status = "DRAFT"
    THEN [reject |-> FALSE, scheduledFor |-> Null, publishedAt |-> Null]
    ELSE [reject |-> FALSE,
          scheduledFor |-> IF scheduledFor # NoDate THEN scheduledFor
                           ELSE existing.scheduledFor,
          publishedAt |-> existing.publishedAt]

\* lines 303-375: prisma.post.findUnique, then the rules on what was read
EditRead ==
    /\ ed.pc = "idle"
    /\ quota.edits > 0
    /\ quota' = [quota EXCEPT !.edits = @ - 1]
    /\ \E id \in Posts, status \in {Undef, "DRAFT", "PUBLISHED", "SCHEDULED"},
          scheduledFor \in Times \cup {NoDate} :
          LET nx == EditRules(post[id], status, scheduledFor, clock)
          IN  /\ post[id].exists
              /\ ed' = IF nx.reject THEN IdleEdit
                       ELSE [pc |-> "write", id |-> id,
                             setStatus |-> status # Undef,
                             status |-> IF status # Undef THEN status ELSE "DRAFT",
                             setScheduledFor |-> status # Undef \/ scheduledFor # NoDate,
                             scheduledFor |-> nx.scheduledFor,
                             publishedAt |-> nx.publishedAt]
    /\ UNCHANGED <<post, clock, pub, pgh>>
    /\ UNCHANGED viewVars

\* lines 428-456: patchData and tx.post.update
EditWrite ==
    /\ ed.pc = "write"
    /\ post' = [post EXCEPT ![ed.id] =
                  [@ EXCEPT !.status = IF ed.setStatus THEN ed.status ELSE @,
                            !.scheduledFor = IF ed.setScheduledFor THEN ed.scheduledFor
                                             ELSE @,
                            !.publishedAt = IF ed.setStatus THEN ed.publishedAt ELSE @]]
    /\ pgh' = [pgh EXCEPT !.edited[ed.id] = TRUE]
    /\ ed' = IdleEdit
    /\ UNCHANGED <<clock, pub, quota>>
    /\ UNCHANGED viewVars

NextPublish ==
    \/ Tick
    \/ \E w \in Workers : PubStart(w)
    \/ \E w \in Workers : FetchNow(w)
    \/ \E w \in Workers : FindDue(w)
    \/ \E w \in Workers : PublishNow(w)
    \/ \E w \in Workers : UpdateMany(w)
    \/ \E w \in Workers : SideEffects(w)
    \/ \E w \in Workers : PubEnd(w)
    \/ EditRead
    \/ EditWrite

SpecPublish == InitPublish /\ [][NextPublish]_vars

(***************************************************************************)
(* The Scheduled Publish Sweep with a store that may reject the            *)
(* conditional update and side effects that may throw; no manual edit.     *)
(***************************************************************************)
InitFaults == PublishStart([edits |-> 0, faults |-> MaxPubFaults])

NextFaults ==
    \/ Tick
    \/ \E w \in Workers : PubStart(w)
    \/ \E w \in Workers : FetchNow(w)
    \/ \E w \in Workers : FindDue(w)
    \/ \E w \in Workers : PublishNow(w)
    \/ \E w \in Workers : UpdateMany(w)
    \/ \E w \in Workers : UpdateManyRejects(w)
    \/ \E w \in Workers : SideEffects(w)
    \/ \E w \in Workers : SideEffectsThrow(w)
    \/ \E w \in Workers : PubEnd(w)

SpecFaults == InitFaults /\ [][NextFaults]_vars

\* one step of a run
WorkerStep(w) ==
    \/ FetchNow(w)
    \/ FindDue(w)
    \/ PublishNow(w)
    \/ UpdateMany(w)
    \/ UpdateManyRejects(w)
    \/ SideEffects(w)
    \/ SideEffectsThrow(w)
    \/ PubEnd(w)

(***************************************************************************)
(* A backlog: three posts SCHEDULED, more than one batch holds.  The start *)
(* of every run is observed: its time and the posts SCHEDULED and due then.*)
(* No manual edit; the store may reject and the side effects may throw.    *)
(***************************************************************************)
InitBacklog ==
    /\ \E s1 \in 1..2 :
          post = [p \in Posts |->
                    IF p = "p1" THEN SchedPost("s1", "SCHEDULED", s1, 0)
                    ELSE IF p = "p2" THEN SchedPost("s2", "SCHEDULED", 1, 1)
                    ELSE SchedPost("s3", "SCHEDULED", 1, 2)]
    /\ rows = [r \in RowIds |-> NoRow]
    /\ dedup = [k \in Posts \X Days |-> {}]
    /\ pending = [p \in Posts |-> 0]
    /\ call = [c \in Slots |-> IdleCall]
    /\ sw = IdleSweep
    /\ today = 1
    /\ budget = [calls |-> 0, rows |-> 0, faults |-> 0, sweeps |-> 0]
    /\ gh = [pairs |-> [p \in Posts |-> {}], incs |-> [t \in Tuples |-> 0],
             lost |-> [p \in Posts |-> FALSE], botDone |-> FALSE]
    /\ obs = NoObs
    /\ clock = 1
    /\ pub = [w \in Workers |-> IdleWorker]
    /\ ed = IdleEdit
    /\ quota = [edits |-> 0, faults |-> MaxPubFaults]
    /\ pgh = NoWins

\* PubStart, observed
TimedPubStart(w) ==
    /\ pub[w].pc = "idle"
    /\ \A v \in Workers : pub[v].pc = "idle" => Rank(w) <= Rank(v)
    /\ pub' = [pub EXCEPT ![w] = [IdleWorker EXCEPT !.pc = "fetch"]]
    /\ pgh' = [pgh EXCEPT !.start[w] = clock,
                          !.due[w] = {p \in Posts : FetchWhere(p, clock)}]
    /\ UNCHANGED <<post, clock, ed, quota>>
    /\ UNCHANGED viewVars

NextBacklog ==
    \/ Tick
    \/ \E w \in Workers : TimedPubStart(w)
    \/ \E w \in Workers : WorkerStep(w)

SpecBacklog == InitBacklog /\ [][NextBacklog]_vars

(***************************************************************************)
(* The same with a store that goes on rejecting for as long as it is       *)
(* asked, and runs that take the step they can take.                       *)
(***************************************************************************)
StoreStillDown ==
    /\ quota.faults = 0
    /\ quota' = [quota EXCEPT !.faults = MaxPubFaults]
    /\ UNCHANGED <<post, clock, pub, ed, pgh>>
    /\ UNCHANGED viewVars

NextStuck ==
    \/ Tick
    \/ StoreStillDown
    \/ \E w \in Workers : PubStart(w)
    \/ \E w \in Workers : WorkerStep(w)

SpecStuck ==
    InitFaults /\ [][NextStuck]_vars /\ \A w \in Workers : WF_vars(WorkerStep(w))

(***************************************************************************)
(* The three together, one at a time: view-tracking calls of every kind    *)
(* (bots, ineligible posts, duplicates, fast-store failures), sweep runs   *)
(* and Scheduled Publish Sweep runs.  p1 is published, p2 is scheduled and *)
(* due; once published it receives views.                                  *)
(***************************************************************************)
InitAll ==
    /\ post = [p \in Posts |->
                 IF p = "p1" THEN ViewPost("s1", "PUBLISHED", "PUBLIC")
                 ELSE IF p = "p2" THEN SchedPost("s2", "SCHEDULED", 1, 1)
                 ELSE Absent]
    /\ rows = [r \in RowIds |-> NoRow]
    /\ dedup = [k \in Posts \X Days |-> {}]
    /\ pending = [p \in Posts |-> 0]
    /\ call = [c \in Slots |-> IdleCall]
    /\ sw = IdleSweep
    /\ today = 1
    /\ budget = [calls |-> MaxCalls, rows |-> MaxCalls, faults |-> MaxFaults,
                 sweeps |-> MaxSweeps]
    /\ gh = [pairs |-> [p \in Posts |-> {}], incs |-> [t \in Tuples |-> 0],
             lost |-> [p \in Posts |-> FALSE], botDone |-> FALSE]
    /\ obs = NoObs
    /\ clock = 1
    /\ pub = [w \in Workers |-> IdleWorker]
    /\ ed = IdleEdit
    /\ quota = [edits |-> 0, faults |-> 0]
    /\ pgh = NoWins

CallsIdle == \A c \in Slots : ~InFlight(c)

WorkersIdle == \A w \in Workers : pub[w].pc \in {"idle", "done"}

SerialLookup(c) == sw.pc = "idle" /\ CallsIdle /\ WorkersIdle /\ Lookup(c)

SerialSweepStart == CallsIdle /\ WorkersIdle /\ SweepStart

SerialPubStart(w) == sw.pc = "idle" /\ CallsIdle /\ WorkersIdle /\ PubStart(w)

NextAll ==
    \/ \E c \in Slots : SerialLookup(c)
    \/ \E c \in Slots : CreateView(c)
    \/ \E c \in Slots : BotDelete(c)
    \/ \E c \in Slots : Sadd(c)
    \/ \E c \in Slots : SaddRejects(c)
    \/ \E c \in Slots : ExpireSetRejects(c)
    \/ \E c \in Slots : IncrBy(c)
    \/ \E c \in Slots : IncrByRejects(c)
    \/ \E c \in Slots : ExpirePendingRejects(c)
    \/ \E c \in Slots : DupDelete(c)
    \/ \E c \in Slots : CatchDelete(c)
    \/ SerialSweepStart
    \/ \E p \in Posts : ScanReply(p)
    \/ ScanEnd
    \/ MGet
    \/ FindExisting
    \/ Transaction
    \/ DelValid
    \/ SweepFails
    \/ SweepReturn
    \/ \E w \in Workers : SerialPubStart(w)
    \/ \E w \in Workers : FetchNow(w)
    \/ \E w \in Workers : FindDue(w)
    \/ \E w \in Workers : PublishNow(w)
    \/ \E w \in Workers : UpdateMany(w)
    \/ \E w \in Workers : SideEffects(w)
    \/ \E w \in Workers : PubEnd(w)

SpecAll == InitAll /\ [][NextAll]_vars


(***************************************************************************)
(* Properties of view tracking, checked under SpecIngest                   *)
(***************************************************************************)
\* a call on post p is still running
Busy(p) == \E c \in Slots : InFlight(c) /\ call[c].post = p

\* the INCRBYs made on pv:pending:<p>
IncsOf(p) ==
    LET ts == {t \in Tuples : t[1] = p /\ gh.incs[t] > 0}
        RECURSIVE Sum(_)
        Sum(S) == IF S = {} THEN 0
                  ELSE LET t == CHOOSE t \in S : TRUE IN gh.incs[t] + Sum(S \ {t})
    IN  Sum(ts)

\* C1: for a fixed eligible post and day, the non-bot calls that carry one
\* fingerprint increase the post's pending counter by exactly 1 in total,
\* however many they are and however they interleave: no (post, member, day)
\* is ever counted twice, once its calls have returned without a failure it
\* is counted once, and the counter holds exactly the counted ones.
C1_SameFingerprintCountsOnce ==
    /\ \A t \in Tuples :
          /\ gh.incs[t] <= 1
          /\ (<<t[2], t[3]>> \in gh.pairs[t[1]] /\ ~Busy(t[1]) /\ ~gh.lost[t[1]])
                => gh.incs[t] = 1
    /\ \A p \in Posts : pending[p] = IncsOf(p)

\* a second call with the fingerprint of a counted one is found a duplicate
C1_Witness ==
    \E c \in Slots :
        /\ call[c].pc = "dupdel"
        /\ gh.incs[TupleOf(c)] = 1
        /\ pending[call[c].post] = 1
        /\ ~gh.lost[call[c].post]

\* C2: for a fixed eligible post, the pending counter has increased by the
\* number of distinct (fingerprint, day bucket) pairs of the non-bot calls
\* made on it, once they have returned without a failure.
C2_DistinctPairsCounted ==
    \A p \in Posts :
        (~Busy(p) /\ ~gh.lost[p]) => pending[p] = Cardinality(gh.pairs[p])

\* one fingerprint on two day buckets has added 2
C2_Witness ==
    \E p \in Posts :
        /\ ~Busy(p)
        /\ ~gh.lost[p]
        /\ gh.pairs[p] = {<<fpKeyPart("fpA", 1), 1>>, <<fpKeyPart("fpA", 2), 2>>}
        /\ pending[p] = 2

\* C3: no step of a call whose user-agent is classified as a bot changes a
\* pending counter or a daily dedup set, and when the call returns the row it
\* created is gone.
C3_BotLeavesNoTrace ==
    [][\A c \in Slots :
          (call'[c] # call[c] /\ (isBotUA(call[c].ua) \/ isBotUA(call'[c].ua)))
            => /\ pending' = pending
               /\ dedup' = dedup
               /\ (call'[c].pc = "done" /\ call[c].row \in RowIds)
                     => rows'[call[c].row].status = "NONE"]_vars

\* one call was made, by a bot; it has returned; nothing is left of it
C3_Witness ==
    /\ gh.botDone
    /\ budget.calls = MaxCalls - 1
    /\ budget.rows = MaxCalls - 1
    /\ \A c \in Slots : ~InFlight(c)
    /\ \A r \in RowIds : rows[r].status = "NONE"
    /\ \A p \in Posts : pending[p] = 0

\* C4: a call for a post that does not exist, is not PUBLISHED or is not
\* PUBLIC returns at once and changes no Post, no ViewRecord row, no dedup
\* set and no pending counter; only a call for an existing PUBLISHED and
\* PUBLIC post goes on.
C4_IneligibleNoEffect ==
    [][\A c \in Slots :
          (call[c].pc \in {"idle", "done"} /\ call'[c] # call[c])
            => \/ /\ call'[c].pc = "create"
                  /\ call'[c].post \in Posts
                  /\ post[call'[c].post].exists
                  /\ post[call'[c].post].status = "PUBLISHED"
                  /\ post[call'[c].post].visibility = "PUBLIC"
               \/ /\ call'[c].pc = "done"
                  /\ call'[c].resp = 204
                  /\ UNCHANGED <<post, rows, dedup, pending>>]_vars

\* a call for the post that is not PUBLISHED and PUBLIC has returned
C4_Witness ==
    /\ ~(post["p2"].status = "PUBLISHED" /\ post["p2"].visibility = "PUBLIC")
    /\ post["p2"].exists
    /\ \E c \in Slots :
          call[c].pc = "done" /\ call[c].slug = "s2" /\ call[c].resp = 204
    /\ \A r \in RowIds : rows[r].status = "NONE"
    /\ \A p \in Posts : pending[p] = 0

\* C5: every view-tracking call ends with 204, whatever happened inside it.
C5_Always204 ==
    \A c \in Slots : call[c].pc = "done" => call[c].resp = 204

(***************************************************************************)
(* Properties of the Reconciliation Sweep, checked under SpecSweep          *)
(***************************************************************************)
\* rows of p that the run under way turned APPLIED
NewlyApplied(p) ==
    Cardinality({r \in RowIds : /\ rows[r].postId = p
                                /\ rows[r].status = "APPLIED"
                                /\ obs.rows[r] # "APPLIED"})

\* rows of p that were PENDING when the run started
PendingAtStart(p) ==
    Cardinality({r \in RowIds : rows[r].postId = p /\ obs.rows[r] = "PENDING"})

\* C6: after a run with no ingestion beside it and no failure, every existing
\* post's views have grown by exactly the value its pending counter had when
\* the run started, and as many of its rows were newly marked APPLIED (when
\* that many were PENDING).
C6_SweepAddsPending ==
    (sw.pc = "done" /\ sw.err = "none" /\ obs.quiet)
        => \A p \in Posts :
              post[p].exists
                => /\ post[p].views = obs.views[p] + obs.pending[p]
                   /\ PendingAtStart(p) >= obs.pending[p]
                         => NewlyApplied(p) = obs.pending[p]

\* C7: a run that follows a successful run, with no ingestion in between or
\* beside them, changes no post's views and no row's status.
C7_SecondRunChangesNothing ==
    (sw.pc # "idle" /\ obs.quiet /\ obs.prevClean)
        => /\ \A p \in Posts : post[p].views = obs.views[p]
           /\ \A r \in RowIds : rows[r].status = obs.rows[r]

\* the second of two runs in succession has ended, the first had applied views
C7_Witness ==
    /\ sw.pc = "done"
    /\ sw.err = "none"
    /\ obs.quiet
    /\ obs.prevClean
    /\ \E p \in Posts : post[p].views > 0

C9_OneWinner ==
    \A p \in Posts :
        ~pgh.edited[p]
          => /\ pgh.wins[p] <= 1
             /\ pgh.fx[p] <= pgh.wins[p]
             /\ pgh.wins[p] = 1
                   => /\ post[p].status = "PUBLISHED"
                      /\ post[p].publishedAt # Null
             /\ (pgh.wins[p] = 1 /\ ~\E w \in Workers : pub[w].pc = "fx" /\ pub[w].last = p)
                   => pgh.fx[p] = 1
             /\ \A w, v \in Workers :
                   (w # v /\ pub[w].last = p /\ pub[v].last = p)
                      => ~(pub[w].res = "PUBLISHED" /\ pub[v].res = "PUBLISHED")

\* two overlapping invocations have updated the same post: one won, one saw 0
C9_Witness ==
    \E p \in Posts, w, v \in Workers :
        /\ w # v
        /\ quota.edits = MaxEdits
        /\ pub[w].pc = "fx"
        /\ pub[w].last = p
        /\ pub[v].pc \notin {"idle", "done"}
        /\ pub[v].last = p
        /\ pub[v].res = "SKIPPED"
        /\ pgh.wins[p] = 1

\* C10: a step of the publish sweep changes a post only by its conditional
\* update, only when the post is SCHEDULED with scheduledFor <= the now of
\* that update, and only to PUBLISHED with publishedAt that now: a post that
\* an edit has made a DRAFT, published or rescheduled into the future in the
\* meantime is left as it is.
C10_PublishOnlyWhenDue ==
    [][\A w \in Workers :
          pub'[w] # pub[w]
            => \A p \in Posts :
                  post'[p] # post[p]
                    => /\ pub[w].pc = "update"
                       /\ pub[w].ids[pub[w].k] = p
                       /\ post[p].status = "SCHEDULED"
                       /\ post[p].scheduledFor # Null
                       /\ post[p].scheduledFor <= pub[w].now
                       /\ post'[p] = [post[p] EXCEPT !.status = "PUBLISHED",
                                                     !.publishedAt = pub[w].now]]_vars

\* a post was due at discovery, an edit rescheduled it into the future, and
\* the conditional update skipped it
C10_Witness ==
    \E w \in Workers :
        /\ pub[w].res = "SKIPPED"
        /\ pub[w].last \in Posts
        /\ pgh.edited[pub[w].last]
        /\ pgh.wins[pub[w].last] = 0
        /\ post[pub[w].last].status = "SCHEDULED"
        /\ post[pub[w].last].scheduledFor > clock

(***************************************************************************)
(* Properties of ingestion beside the sweep, checked under SpecConc        *)
(***************************************************************************)
Applied(p) ==
    Cardinality({r \in RowIds : rows[r].postId = p /\ rows[r].status = "APPLIED"})

BatchInFlight == sw.pc \in {"find", "orphandel", "orphanmark", "tx", "del"}

\* C11: in every reachable state in which no batch of a sweep run is in
\* flight, the views of every post equal the number of that post's rows with
\* status APPLIED.
C11_ViewsEqualApplied ==
    ~BatchInFlight
        => \A p \in Posts : post[p].exists => post[p].views = Applied(p)


\* C28: no step of a view-tracking call deletes a row whose status is APPLIED:
\* the row a duplicate call (or a call that hit a store failure) deletes is
\* still PENDING when it is deleted.
C28_IngestionNeverDeletesApplied ==
    [][\A c \in Slots :
          (call'[c] # call[c] /\ call[c].row \in RowIds)
             => ~(/\ rows[call[c].row].status = "APPLIED"
                  /\ rows'[call[c].row].status = "NONE")]_vars


(***************************************************************************)
(* Checked under SpecLive, where the sweep keeps running                   *)
(***************************************************************************)
\* C12: no counted view is lost when ingestion runs beside the sweep: every
\* increment of a post's pending counter is eventually added to the post's
\* views by some run, unless the post is deleted; the n-th increment made on
\* a post leads to views of at least n.
C12_EveryIncrementApplied ==
    \A p \in Posts : \A n \in 1..MaxCalls :
        (IncsOf(p) >= n) ~> (post[p].views >= n \/ ~post[p].exists)


(***************************************************************************)
(* Properties of the sweep's retries, checked under SpecRetry              *)
(***************************************************************************)
\* C13: each counted view contributes exactly 1 to the post's views across
\* the runs, also when a run fails part-way: a key that is retried by the next
\* run does not add the same count a second time, so the views of a post never
\* exceed the increments made on its pending counter.
C13_NoViewAppliedTwice ==
    \A p \in Posts : post[p].views <= IncsOf(p)


(***************************************************************************)
(* Properties of the three together, checked under SpecAll                 *)
(***************************************************************************)
\* C14: the views of a post never decrease and only the transaction of a
\* sweep batch changes them: every step of a view-tracking call, whatever its
\* outcome, and every step of a Scheduled Publish Sweep run leave the views
\* of every post unchanged.
C14_ViewsOnlyBySweep ==
    [][\A p \in Posts :
          /\ post'[p].views >= post[p].views
          /\ post'[p].views # post[p].views => (sw.pc = "tx" /\ sw'.pc = "del")
          /\ (call' # call \/ pub' # pub) => post'[p].views = post[p].views]_vars

\* the Scheduled Publish Sweep has published p2, calls of every outcome have
\* ended and a sweep run has added p2's views
C14_Witness ==
    /\ pgh.wins["p2"] = 1
    /\ post["p2"].views > 0
    /\ \E c \in Slots : call[c].pc = "done" /\ call[c].resp = 204
    /\ gh.botDone \/ \E p \in Posts : gh.lost[p]


(***************************************************************************)
(* Properties of a failing sweep run, checked under SpecSweep              *)
(***************************************************************************)
\* C15: when the transaction of a batch fails, the step persists none of the
\* batch's increments and row updates and deletes no key, and the run ends
\* without deleting the batch's keys: after a run whose first batch failed in
\* its transaction, every existing post of the batch has the views it had
\* when the run started and its counter still holds the value that was read.
C15_FailedTransactionPersistsNothing ==
    /\ [][(sw.pc = "tx" /\ sw'.pc = "done")
             => /\ sw'.err # "none"
                /\ post' = post
                /\ rows' = rows
                /\ pending' = pending]_vars
    /\ []((sw.pc = "done" /\ sw.at = "tx" /\ sw.i = 1 /\ obs.quiet)
             => \A i \in 1..Len(sw.valid) :
                   LET id == sw.valid[i].postId
                   IN  /\ post[id].views = obs.views[id]
                       /\ pending[id] = sw.valid[i].val
                       /\ \A r \in RowIds : rows[r].status = obs.rows[r])

\* a run has ended on the failure of its transaction, with a counter to apply
C15_Witness ==
    /\ sw.pc = "done"
    /\ sw.at = "tx"
    /\ sw.err = "store"
    /\ sw.i = 1
    /\ obs.quiet
    /\ \E i \in 1..Len(sw.valid) : pending[sw.valid[i].postId] > 0


(***************************************************************************)
(* A run of several batches, checked under SpecRetry                       *)
(***************************************************************************)
\* C16: when the transaction of one batch fails during a run, the other
\* batches of the run still proceed: at the end of the run every batch after
\* the failed one has been added to its post's views and has had its key
\* deleted.
C16_LaterBatchesProceed ==
    (sw.pc = "done" /\ sw.at = "tx" /\ obs.quiet)
        => \A j \in 1..Len(sw.toApply) :
              (j >= sw.i + CHUNK_SIZE /\ post[sw.toApply[j].postId].exists)
                 => /\ pending[sw.toApply[j].postId] = 0
                    /\ post[sw.toApply[j].postId].views
                          >= obs.views[sw.toApply[j].postId] + sw.toApply[j].val


(***************************************************************************)
(* The row of a call, checked under SpecIngest                             *)
(***************************************************************************)
\* C17: when an eligible, non-bot call completes (its post still existing),
\* the row it inserted is there as PENDING if and only if the call incremented
\* the pending counter, whatever fast-store operation failed: the row of a
\* duplicate or of a failed call is deleted and the row of a counted view is
\* not.
C17_RowSurvivesIffCounted ==
    [][\A c \in Slots :
          (/\ InFlight(c)
           /\ call'[c].pc = "done"
           /\ ~isBotUA(call[c].ua)
           /\ call[c].row \in RowIds
           /\ post'[call[c].post].exists)
             => (rows'[call[c].row].status = "PENDING"
                    <=> (call[c].counted \/ call[c].pc = "incr"))]_vars


\* C18: when a post's pending counter has left the fast store while counted
\* PENDING rows of the post exist, a sweep run recovers the count from the
\* rows: a run that starts in that state and ends without a failure has added
\* the number of those rows to the post's views and marked them APPLIED.
C18_LostCounterRecovered ==
    (sw.pc = "done" /\ sw.err = "none" /\ obs.quiet)
        => \A p \in Posts :
              (post[p].exists /\ obs.pending[p] = 0 /\ PendingAtStart(p) > 0)
                 => /\ post[p].views >= obs.views[p] + PendingAtStart(p)
                    /\ \A r \in RowIds :
                          (rows[r].postId = p /\ obs.rows[r] = "PENDING")
                             => rows[r].status = "APPLIED"


(***************************************************************************)
(* The outcome of a sweep run, checked under SpecSweep                     *)
(***************************************************************************)
\* C19: the handler of the sweep never lets an exception reach the job
\* runner: a failure of the key scan, of the batch read, of the orphan
\* clean-up, of a batch transaction or of the key deletion is caught, and the
\* run ends as a run without failure does.
C19_SweepNeverThrows ==
    /\ sw.pc # "crashed"
    /\ sw.err # "none" => (sw.pc = "done" /\ sw.at # "none")

\* a run has ended on a failure of its orphan clean-up
C19_Witness ==
    /\ sw.pc = "done"
    /\ sw.err = "store"
    /\ sw.at = "orphanmark"


(***************************************************************************)
(* Errors of the Scheduled Publish Sweep, checked under SpecFaults         *)
(***************************************************************************)
\* C20: an error raised while one candidate post is processed (the store
\* rejecting the conditional update, or the after-publish side effects
\* throwing) never fails the run and never stops the processing of the
\* remaining candidates: after an error the loop is at the next id of the
\* batch (or, past the last id, at the next fetch or at the end of the run),
\* and the loop over a batch ends only past its last id; a post whose
\* side effects failed is PUBLISHED with its publishedAt.
C20_ErrorsDoNotStopTheRun ==
    /\ \A w \in Workers :
          /\ pub[w].pc # "failed"
          /\ pub[w].res = "ERROR"
                => /\ pub[w].pc \in {"now", "update", "fx", "fetch", "find", "end"}
                   /\ (pub[w].pc = "now" /\ pub[w].k > 1)
                         => pub[w].ids[pub[w].k - 1] = pub[w].last
          /\ (pub[w].pc = "end" /\ pub[w].ids # <<>>) => pub[w].k = Len(pub[w].ids)
    /\ \A p \in Posts :
          pgh.fxerr[p] => (post[p].status = "PUBLISHED" /\ post[p].publishedAt # Null)

\* the conditional update of the first candidate of a batch was rejected and
\* the run went on to publish the second
C20_Witness ==
    \E w \in Workers :
        /\ Len(pub[w].ids) = 2
        /\ pub[w].k = 2
        /\ pub[w].pc = "fx"
        /\ quota.faults < MaxPubFaults
        /\ post[pub[w].ids[1]].status = "SCHEDULED"
        /\ post[pub[w].ids[2]].status = "PUBLISHED"


(***************************************************************************)
(* The count of a Scheduled Publish Sweep run, checked under SpecPublish   *)
(***************************************************************************)
\* C21: the count a run reports is the number of posts the run itself moved
\* from SCHEDULED to PUBLISHED: processed grows by one only for a candidate
\* whose conditional update changed one row, and never for a candidate that
\* was skipped because the update changed no row.
C21_CountsOnlyOwnPublishes ==
    [][\A w \in Workers :
          pub'[w].processed = pub[w].processed + 1
             => /\ pub[w].pc = "fx"
                /\ pub[w].res = "PUBLISHED"
                /\ post[pub[w].last].status = "PUBLISHED" \/ pgh.edited[pub[w].last]]_vars


\* C22: a run of the publish sweep never sets a post's status to SCHEDULED or
\* DRAFT, never changes the status or the publishedAt of a post that is a
\* DRAFT or already PUBLISHED, and leaves unchanged a SCHEDULED post whose
\* scheduledFor is still in the future.
C22_PublishTouchesOnlyDue ==
    [][(pub' # pub)
          => \A p \in Posts :
                /\ post'[p].status # post[p].status => post'[p].status = "PUBLISHED"
                /\ post[p].status \in {"DRAFT", "PUBLISHED"}
                      => /\ post'[p].status = post[p].status
                         /\ post'[p].publishedAt = post[p].publishedAt
                /\ (post[p].status = "SCHEDULED" /\ post[p].scheduledFor > clock)
                      => post'[p] = post[p]]_vars

\* a run's conditional update has skipped a post that an overlapping run had
\* published, while the other post is SCHEDULED for a later time
C22_Witness ==
    \E w \in Workers, q \in Posts :
        /\ pub[w].res = "SKIPPED"
        /\ pub[w].last \in Posts
        /\ post[pub[w].last].status = "PUBLISHED"
        /\ post[pub[w].last].scheduledFor # Null
        /\ post[pub[w].last].scheduledFor <= clock
        /\ q # pub[w].last
        /\ post[q].status = "SCHEDULED"
        /\ post[q].scheduledFor > clock


(***************************************************************************)
(* Keys that SCAN returns more than once, checked under SpecSweep          *)
(***************************************************************************)
\* C23: within one run each pending-counter key leads to at most one
\* increment of its post's views, also when SCAN returns the key more than
\* once: in a run with no ingestion beside it, the views of a post never
\* exceed the views it had when the run started plus the value its counter
\* had then.
C23_KeyAppliedOncePerRun ==
    (sw.pc # "idle" /\ obs.quiet)
        => \A p \in Posts : post[p].views <= obs.views[p] + obs.pending[p]


(***************************************************************************)
(* Termination of the Scheduled Publish Sweep, checked under SpecStuck     *)
(***************************************************************************)
\* C24: every invocation of the publish sweep terminates, also when the
\* candidates of a full batch are all skipped or all fail with an error: a
\* run that has started eventually returns.
C24_PublishRunTerminates ==
    \A w \in Workers : (pub[w].pc \notin {"idle", "done"}) ~> (pub[w].pc = "done")


(***************************************************************************)
(* What a run leaves behind, checked under SpecBacklog                     *)
(***************************************************************************)
\* a run that has left its loop while no candidate of any run raised an error
CleanEnd(w) == pub[w].pc = "end" /\ quota.faults = MaxPubFaults

\* no post is SCHEDULED with a scheduledFor at or before the start of run w
NoneLeftDue(w) ==
    \A p \in Posts :
        ~(/\ post[p].exists
          /\ post[p].status = "SCHEDULED"
          /\ post[p].scheduledFor # Null
          /\ post[p].scheduledFor <= pgh.start[w])

\* C25 (as amended): when a run has left its loop and no candidate has raised
\* an error (no manual edit happens), no post is left SCHEDULED with
\* scheduledFor at or before the time the run started, whatever the number of
\* due posts relative to the batch size, and every post that was SCHEDULED and
\* due when the run started is PUBLISHED with a publishedAt that is set, not
\* before its scheduledFor and not before the start of the run that published
\* it (this run or one that overlaps it).
C25_NoDuePostLeft ==
    \A w \in Workers :
        CleanEnd(w)
           => /\ NoneLeftDue(w)
              /\ \A p \in pgh.due[w] :
                    /\ post[p].status = "PUBLISHED"
                    /\ post[p].publishedAt # Null
                    /\ post[p].publishedAt >= post[p].scheduledFor
                    /\ \E v \in Workers : /\ pgh.start[v] # Null
                                          /\ post[p].publishedAt >= pgh.start[v]

\* C25 as the specification words it: every post that was SCHEDULED and due
\* when the run started has a publishedAt set during that run.
C25_SetDuringTheRun ==
    \A w \in Workers :
        CleanEnd(w)
           => /\ NoneLeftDue(w)
              /\ \A p \in pgh.due[w] :
                    /\ post[p].status = "PUBLISHED"
                    /\ post[p].publishedAt # Null
                    /\ post[p].publishedAt >= pgh.start[w]

\* a run found more due posts than one batch holds, published a post of the
\* second batch itself and has left its loop without an error
C25_Witness ==
    \E w \in Workers :
        /\ CleanEnd(w)
        /\ Cardinality(pgh.due[w]) > BATCH_SIZE
        /\ pub[w].processed > BATCH_SIZE
        /\ pub[w].res = "PUBLISHED"


(***************************************************************************)
(* The life of a ViewRecord row, checked under SpecSweep                   *)
(***************************************************************************)
\* the row r exists before and after the step and its status differs
StatusChanges(r) ==
    /\ rows[r].status # "NONE"
    /\ rows'[r].status # "NONE"
    /\ rows'[r].status # rows[r].status

\* C26: the status of a ViewRecord row only ever changes from PENDING to
\* APPLIED or from PENDING to DISCARDED, and only in a step of the
\* reconciliation sweep (its transaction or its orphan updateMany); APPLIED and
\* DISCARDED never change; a row is inserted as PENDING; and in every state
\* processedAt is set exactly for the rows whose status is not PENDING.
C26_RowStatusLifecycle ==
    /\ [][\A r \in RowIds :
             /\ StatusChanges(r)
                   => /\ rows[r].status = "PENDING"
                      /\ rows'[r].status \in {"APPLIED", "DISCARDED"}
                      /\ sw.pc \in {"tx", "orphanmark"}
                      /\ sw' # sw
                      /\ call' = call
             /\ (rows[r].status = "NONE" /\ rows'[r].status # "NONE")
                   => rows'[r].status = "PENDING"]_vars
    /\ [](\A r \in RowIds :
             rows[r].status # "NONE"
                => (rows[r].processedAt <=> rows[r].status # "PENDING"))

\* the sweep's transaction has just marked a row APPLIED
C26_Witness ==
    /\ sw.pc = "del"
    /\ \E r \in RowIds : rows[r].status = "APPLIED" /\ rows[r].processedAt


(***************************************************************************)
(* Rows and counter after ingestion, checked under SpecIngest              *)
(***************************************************************************)
\* the rows a post has, and those of them that are PENDING
RowsOf(p) == {r \in RowIds : rows[r].postId = p /\ rows[r].status # "NONE"}
PendingRowsOf(p) == {r \in RowIds : rows[r].postId = p /\ rows[r].status = "PENDING"}

\* C27: once the view-tracking calls made for an existing post have returned,
\* with no failure of the fast store and no sweep, the number of the post's
\* PENDING rows equals its pending counter and both equal the number of
\* distinct (fingerprint, day) pairs submitted by non-bot calls (on one day:
\* the number of distinct fingerprints); the post has no other row, so the
\* row of every duplicate call is gone.
C27_RowsMatchCounter ==
    \A p \in Posts :
        (post[p].exists /\ ~Busy(p) /\ ~gh.lost[p])
           => /\ Cardinality(PendingRowsOf(p)) = pending[p]
              /\ pending[p] = Cardinality(gh.pairs[p])
              /\ RowsOf(p) = PendingRowsOf(p)

\* two calls with one fingerprint on one day have returned: both inserted a
\* row, one row is left and the counter is 1
C27_Witness ==
    \E p \in Posts :
        /\ post[p].exists /\ ~Busy(p) /\ ~gh.lost[p]
        /\ budget.rows = 0
        /\ budget.faults = MaxFaults
        /\ gh.pairs[p] = {<<fpKeyPart("fpA", 1), 1>>}
        /\ ~gh.botDone
        /\ Cardinality(PendingRowsOf(p)) = 1
        /\ pending[p] = 1


(***************************************************************************)
(* The daily dedup sets across a sweep, checked under SpecSweep            *)
(***************************************************************************)
\* C29: no step of a reconciliation sweep changes a daily dedup set; so no
\* (post, fingerprint, day) is ever added to a pending counter twice, sweeps in
\* between or not, and a call that carries a fingerprint already counted for
\* its post and day changes neither a pending counter nor a post.
C29_SweepKeepsDedupSets ==
    /\ [][/\ sw' # sw => dedup' = dedup
          /\ \A c \in Slots :
                (call'[c] # call[c] /\ InFlight(c) /\ gh.incs[TupleOf(c)] >= 1)
                   => pending' = pending /\ post' = post]_vars
    /\ [](\A t \in Tuples : gh.incs[t] <= 1)

\* a fingerprint was counted and applied by a sweep run; a later call with it,
\* for the same post and day, has just been answered "duplicate" by SADD
C29_Witness ==
    \E c \in Slots :
        /\ call[c].pc = "dupdel"
        /\ gh.incs[TupleOf(c)] = 1
        /\ post[call[c].post].views >= 1
        /\ pending[call[c].post] = 0
        /\ sw.pc = "idle"


(***************************************************************************)
(* publishedAt and status, checked under SpecPublish                       *)
(***************************************************************************)
\* C30: in every reachable state, however the manual edits and the publish
\* runs interleave, a post's publishedAt is set if and only if its status is
\* PUBLISHED.
C30_PublishedAtIffPublished ==
    \A p \in Posts :
        post[p].exists => (post[p].publishedAt # Null <=> post[p].status = "PUBLISHED")

\* a post published by a run has been put back to DRAFT by an edit, which
\* cleared its publishedAt
C30_Witness ==
    \E p \in Posts :
        /\ pgh.wins[p] = 1
        /\ pgh.edited[p]
        /\ post[p].status = "DRAFT"
        /\ post[p].publishedAt = Null

=============================================================================
